---------------------------- MODULE Spec2Model ----------------------------
(***************************************************************************)
(* Model of the transcript-to-record extraction core of                    *)
(* Extract_Watch_ID.py: HEADER_RE, parse_price, parse_currency,            *)
(* parse_year, parse_variant, parse_condition, split_segments,             *)
(* attach_following, extract_message_entries, process_chat_file and the    *)
(* file loop of WatchExtractorApp.extraction_thread.                       *)
(*                                                                         *)
(* A text is a sequence of one-character strings, so that every regular    *)
(* expression of the source is modelled by what it matches, character by   *)
(* character.  A line break inside a text is the character "\n".           *)
(***************************************************************************)
EXTENDS Integers, Sequences, FiniteSets, TLC

VARIABLES
    \* WatchExtractorApp.extraction_thread
    txt_files,      \* list(chats_dir.glob("*.txt")): the files, in enumeration order
    fidx,           \* number of files the for loop has finished
    all_entries,    \* the aggregated rows
    df,             \* the data frame with its "Series" column (empty until built)
    pc,             \* position of the extraction thread
    \* process_chat_file, for the file being processed
    flines,         \* content.splitlines()
    pos,            \* number of lines the tokenizer loop has consumed
    curr,           \* the open message (NoMsg when None)
    msgs,           \* the finalized messages
    midx,           \* number of messages the assembly loop has consumed
    raws,           \* extract_message_entries of the last message looked at
    rows,           \* the rows of this file
    \* attach_following, run on its own
    abody,          \* the argument body
    lines,          \* the stripped non-empty lines of the body
    ai,             \* loop variable i (1-based)
    aj,             \* loop variable j (1-based); 0 when the inner loop is not running
    results,        \* the combined entries emitted so far
    apc,            \* position inside attach_following
    \* the attribute extractors, run on their own
    text,           \* the argument
    price,          \* parse_price(text) once computed
    year,           \* parse_year(text) once computed
    fpc             \* which extractors have run

pipeVars == <<txt_files, fidx, all_entries, df, pc, flines, pos, curr, msgs, midx, raws, rows>>
attVars  == <<abody, lines, ai, aj, results, apc>>
fnVars   == <<text, price, year, fpc>>
vars     == <<pipeVars, attVars, fnVars>>

-----------------------------------------------------------------------------
(* Characters *)

Digits == {"0", "1", "2", "3", "4", "5", "6", "7", "8", "9"}

LowerLetters ==
    <<"a","b","c","d","e","f","g","h","i","j","k","l","m",
      "n","o","p","q","r","s","t","u","v","w","x","y","z">>

UpperLetters ==
    <<"A","B","C","D","E","F","G","H","I","J","K","L","M",
      "N","O","P","Q","R","S","T","U","V","W","X","Y","Z">>

LowerSet == {LowerLetters[k] : k \in 1..26}
UpperSet == {UpperLetters[k] : k \in 1..26}

\* str.lower() and str.upper() of one character
LowerMap == [c \in UpperSet |-> LowerLetters[CHOOSE k \in 1..26 : UpperLetters[k] = c]]
UpperMap == [c \in LowerSet |-> UpperLetters[CHOOSE k \in 1..26 : LowerLetters[k] = c]]

LowerChar(c) == IF c \in UpperSet THEN LowerMap[c] ELSE c
UpperChar(c) == IF c \in LowerSet THEN UpperMap[c] ELSE c

Lower(s) == [k \in 1..Len(s) |-> LowerChar(s[k])]
Upper(s) == [k \in 1..Len(s) |-> UpperChar(s[k])]

IsDigit(c) == c \in Digits                                  \* \d
IsSpace(c) == c \in {" ", "\t", "\n"}                       \* \s, and what strip() removes
IsAlnum(c) == c \in Digits \cup LowerSet \cup UpperSet      \* [A-Z0-9] under IGNORECASE
IsWord(c)  == IsAlnum(c) \/ c = "_"                         \* \w

\* the character at position p, or "" (no character) outside the text
At(s, p) == IF p >= 1 /\ p <= Len(s) THEN s[p] ELSE ""

\* \b between positions p-1 and p
WordBoundary(s, p) == IsWord(At(s, p - 1)) # IsWord(At(s, p))

\* pat occurs in s at position p
OccursAt(s, pat, p) ==
    /\ p >= 1
    /\ p + Len(pat) - 1 <= Len(s)
    /\ \A k \in 1..Len(pat) : s[p + k - 1] = pat[k]

\* `pat in s`
Contains(s, pat) == \E p \in 1..(Len(s) + 1) : OccursAt(s, pat, p)

\* the end of the maximal run of characters satisfying Cls that starts at p
\* (p - 1 when s[p] does not satisfy it)
RECURSIVE DigitRunEnd(_, _)
DigitRunEnd(s, p) == IF IsDigit(At(s, p)) THEN DigitRunEnd(s, p + 1) ELSE p - 1

RECURSIVE SpaceRunEnd(_, _)
SpaceRunEnd(s, p) == IF IsSpace(At(s, p)) THEN SpaceRunEnd(s, p + 1) ELSE p - 1

DigitSeq == <<"0", "1", "2", "3", "4", "5", "6", "7", "8", "9">>
DigitVal(c) == (CHOOSE n \in 1..10 : DigitSeq[n] = c) - 1

\* int() of a digit string
RECURSIVE ToInt(_)
ToInt(d) == IF d = <<>> THEN 0
            ELSE 10 * ToInt(SubSeq(d, 1, Len(d) - 1)) + DigitVal(d[Len(d)])

\* the least element of a non-empty set of integers
Min(S) == CHOOSE x \in S : \A y \in S : x <= y

\* str.strip()
RECURSIVE LStrip(_)
LStrip(s) == IF s # <<>> /\ IsSpace(s[1]) THEN LStrip(Tail(s)) ELSE s
RECURSIVE RStrip(_)
RStrip(s) == IF s # <<>> /\ IsSpace(s[Len(s)]) THEN RStrip(SubSeq(s, 1, Len(s) - 1)) ELSE s
Strip(s) == RStrip(LStrip(s))

-----------------------------------------------------------------------------
(* parse_year *)

\* f"{year_val:02d}"
Pad2(n) == IF n < 100 THEN <<DigitSeq[(n \div 10) + 1], DigitSeq[(n % 10) + 1]>>
           ELSE <<DigitSeq[(n \div 100) + 1], DigitSeq[((n \div 10) % 10) + 1], DigitSeq[(n % 10) + 1]>>

\* (20\d{2}) at position p
Year20At(s, p) ==
    /\ OccursAt(s, <<"2", "0">>, p)
    /\ IsDigit(At(s, p + 2))
    /\ IsDigit(At(s, p + 3))

\* \b(20\d{2})\b
YearRule1At(s, p) == Year20At(s, p) /\ WordBoundary(s, p) /\ WordBoundary(s, p + 4)

\* (20\d{2})/\d{2}
YearRule2At(s, p) ==
    /\ Year20At(s, p)
    /\ At(s, p + 4) = "/"
    /\ IsDigit(At(s, p + 5))
    /\ IsDigit(At(s, p + 6))

\* \b(\d{1,2})(?:y|Y)\b with n digits in the group
YearRule3At(s, p, n) ==
    /\ WordBoundary(s, p)
    /\ \A k \in 0..(n - 1) : IsDigit(At(s, p + k))
    /\ LowerChar(At(s, p + n)) = "y"
    /\ WordBoundary(s, p + n + 1)

\* (20\d{2})(?:year|yr), IGNORECASE
YearRule4At(s, p) ==
    /\ Year20At(s, p)
    /\ \/ OccursAt(Lower(s), <<"y", "e", "a", "r">>, p + 4)
       \/ OccursAt(Lower(s), <<"y", "r">>, p + 4)

\* line 54 with {year_val} for {year_val:02d}
TwoDigitYearUnpadded(year_val) ==
    LET d == IF year_val < 10 THEN <<DigitSeq[year_val + 1]>> ELSE Pad2(year_val)
    IN  IF year_val < 50 THEN <<"2", "0">> \o d ELSE <<"1", "9">> \o d

\* the 20xx / 19xx mapping of the two-digit form (line 54)
TwoDigitYear(year_val) ==
    IF year_val < 50 THEN <<"2", "0">> \o Pad2(year_val) ELSE <<"1", "9">> \o Pad2(year_val)

parse_year(s) ==
    LET P1 == {p \in 1..Len(s) : YearRule1At(s, p)}
        P2 == {p \in 1..Len(s) : YearRule2At(s, p)}
        P3 == {p \in 1..Len(s) : YearRule3At(s, p, 1) \/ YearRule3At(s, p, 2)}
        P4 == {p \in 1..Len(s) : YearRule4At(s, p)}
    IN  IF P1 # {} THEN SubSeq(s, Min(P1), Min(P1) + 3)
        ELSE IF P2 # {} THEN SubSeq(s, Min(P2), Min(P2) + 3)
        ELSE IF P3 # {} THEN
            LET p == Min(P3)
                n == IF YearRule3At(s, p, 2) THEN 2 ELSE 1     \* \d{1,2} is greedy
            IN  TwoDigitYear(ToInt(SubSeq(s, p, p + n - 1)))
        ELSE IF P4 # {} THEN SubSeq(s, Min(P4), Min(P4) + 3)
        ELSE <<>>

-----------------------------------------------------------------------------
(* parse_price *)

RECURSIVE Pow10(_)
Pow10(n) == IF n = 0 THEN 1 ELSE 10 * Pow10(n - 1)

\* text.replace(',', '').lower()
PriceNormalise(s) == Lower(SelectSeq(s, LAMBDA c : c # ","))

\* (\d+\.\d+) at p: the end of the fraction digits, 0 when there is no match
DecimalEnd(t, p) ==
    LET e1 == DigitRunEnd(t, p)
        e2 == DigitRunEnd(t, e1 + 2)
    IN  IF e1 >= p /\ At(t, e1 + 1) = "." /\ e2 >= e1 + 2 THEN e2 ELSE 0

\* (\d+\.\d+)\s*<unit> at p
DecimalUnitAt(t, p, unit) ==
    /\ DecimalEnd(t, p) > 0
    /\ OccursAt(t, unit, SpaceRunEnd(t, DecimalEnd(t, p) + 1) + 1)

\* (\d+)\s*<unit>\b at p
IntUnitAt(t, p, unit) ==
    LET e == DigitRunEnd(t, p)
        u == SpaceRunEnd(t, e + 1) + 1
    IN  /\ e >= p
        /\ OccursAt(t, unit, u)
        /\ WordBoundary(t, u + Len(unit))

\* int(float(group) * mult) for group = "<ip>.<fr>": the product is taken exactly
\* and truncated (the texts of the model keep to fractions whose double
\* product truncates to the same integer)
DecimalTimes(d, mult) ==
    LET dot == CHOOSE k \in 1..Len(d) : d[k] = "."
        ip  == SubSeq(d, 1, dot - 1)
        fr  == SubSeq(d, dot + 1, Len(d))
    IN  ToInt(ip) * mult + ((ToInt(fr) * mult) \div Pow10(Len(fr)))

CurrencyCodes == << <<"h","k","d">>, <<"u","s","d">>, <<"e","u","r">>, <<"c","h","f">>, <<"u","s","d","t">> >>

\* (?:hkd|usd|eur|chf|usdt)[: ]\s*(\d{5,}) at p with alternative c: the
\* position of the first digit of the group, 0 when there is no match
CodeSepDigits(t, p, c) ==
    LET code == CurrencyCodes[c]
        q == p + Len(code)
        d == SpaceRunEnd(t, q + 1) + 1
    IN  IF OccursAt(t, code, p) /\ At(t, q) \in {":", " "} /\ DigitRunEnd(t, d) - d + 1 >= 5
        THEN d ELSE 0

\* (?:hkd|usd|eur|chf|usdt)(\d{5,}) at p with alternative c
CodeDigits(t, p, c) ==
    LET code == CurrencyCodes[c]
        d == p + Len(code)
    IN  IF OccursAt(t, code, p) /\ DigitRunEnd(t, d) - d + 1 >= 5 THEN d ELSE 0

\* \b(\d{6,})\b at p
LongRunAt(t, p) ==
    /\ WordBoundary(t, p)
    /\ DigitRunEnd(t, p) - p + 1 >= 6
    /\ WordBoundary(t, DigitRunEnd(t, p) + 1)

\* the rule of parse_price (1..8, in the order of lines 30-37) that decides
\* the text, 0 when none matches
PriceRule(s) ==
    LET t == PriceNormalise(s)
        P == 1..Len(t)
    IN  IF \E p \in P : DecimalUnitAt(t, p, <<"k">>) THEN 1
        ELSE IF \E p \in P : DecimalUnitAt(t, p, <<"m">>) THEN 2
        ELSE IF \E p \in P : IntUnitAt(t, p, <<"k">>) THEN 3
        ELSE IF \E p \in P : IntUnitAt(t, p, <<"m">>) THEN 4
        ELSE IF \E p \in P : DecimalUnitAt(t, p, <<"m", "i", "l", "l">>) THEN 5
        ELSE IF \E p \in P : \E c \in 1..5 : CodeSepDigits(t, p, c) > 0 THEN 6
        ELSE IF \E p \in P : \E c \in 1..5 : CodeDigits(t, p, c) > 0 THEN 7
        ELSE IF \E p \in P : LongRunAt(t, p) THEN 8
        ELSE 0

parse_price(s) ==
    LET t == PriceNormalise(s)
        P == 1..Len(t)
        r == PriceRule(s)
        DecVal(unit, mult) ==
            LET p == Min({q \in P : DecimalUnitAt(t, q, unit)})
            IN  DecimalTimes(SubSeq(t, p, DecimalEnd(t, p)), mult)
        IntVal(unit, mult) ==
            LET p == Min({q \in P : IntUnitAt(t, q, unit)})
            IN  ToInt(SubSeq(t, p, DigitRunEnd(t, p))) * mult
    IN  CASE r = 1 -> DecVal(<<"k">>, 1000)
          [] r = 2 -> DecVal(<<"m">>, 1000000)
          [] r = 3 -> IntVal(<<"k">>, 1000)
          [] r = 4 -> IntVal(<<"m">>, 1000000)
          [] r = 5 -> DecVal(<<"m", "i", "l", "l">>, 1000000)
          [] r = 6 ->
                LET p == Min({q \in P : \E c \in 1..5 : CodeSepDigits(t, q, c) > 0})
                    c == Min({k \in 1..5 : CodeSepDigits(t, p, k) > 0})
                    d == CodeSepDigits(t, p, c)
                IN  ToInt(SubSeq(t, d, DigitRunEnd(t, d)))
          [] r = 7 ->
                LET p == Min({q \in P : \E c \in 1..5 : CodeDigits(t, q, c) > 0})
                    c == Min({k \in 1..5 : CodeDigits(t, p, k) > 0})
                    d == CodeDigits(t, p, c)
                IN  ToInt(SubSeq(t, d, DigitRunEnd(t, d)))
          [] r = 8 ->
                LET p == Min({q \in P : LongRunAt(t, q)})
                IN  ToInt(SubSeq(t, p, DigitRunEnd(t, p)))
          [] OTHER -> 0

-----------------------------------------------------------------------------
(* parse_currency, parse_variant, parse_condition *)

\* the characters U+20AC and U+00A3, named because the module is ASCII
EuroSign  == "EURO SIGN"
PoundSign == "POUND SIGN"

parse_currency(s) ==
    LET t == Lower(s)
    IN  IF Contains(t, <<"u","s","d","t">>) THEN "USDT"
        ELSE IF Contains(t, <<"u","s","d">>) \/ Contains(t, <<"$">>) THEN "USD"
        ELSE IF Contains(t, <<"e","u","r">>) \/ Contains(t, <<EuroSign>>) THEN "EUR"
        ELSE IF Contains(t, <<"c","h","f">>) THEN "CHF"
        ELSE IF Contains(t, <<"g","b","p">>) \/ Contains(t, <<PoundSign>>) THEN "GBP"
        ELSE "HKD"

\* re.search(rf'\b{w}\b', t) for a literal word w
HasWord(t, w) ==
    \E p \in 1..Len(t) :
        OccursAt(t, w, p) /\ WordBoundary(t, p) /\ WordBoundary(t, p + Len(w))

Variants ==
    << <<"B","L","U","E">>, <<"B","L","A","C","K">>, <<"G","R","E","E","N">>,
       <<"W","H","I","T","E">>, <<"R","E","D">>, <<"G","R","E","Y">>, <<"G","R","A","Y">>,
       <<"J","U","B">>, <<"O","Y","S">>, <<"R","G">>, <<"T","I">>, <<"W","G">> >>

parse_variant(s) ==
    LET t == Upper(s)
        V == {k \in 1..Len(Variants) : HasWord(t, Variants[k])}
    IN  IF V = {} THEN <<>>
        ELSE IF Variants[Min(V)] = <<"G","R","A","Y">> THEN <<"G","R","E","Y">>
        ELSE Variants[Min(V)]

parse_condition(s) ==
    LET t == Lower(s)
    IN  IF Contains(t, <<"l","i","k","e"," ","n","e","w">>) THEN "Like New"
        ELSE IF Contains(t, <<"u","s","e","d">>) THEN "Used"
        ELSE IF Contains(t, <<"f","u","l","l"," ","s","e","t">>)
                \/ Contains(t, <<"f","u","l","l","s","e","t">>) THEN "Full Set"
        ELSE IF Contains(t, <<"m","i","n","t">>) THEN "Mint"
        ELSE IF Contains(t, <<"n","e","w">>) THEN "New"
        ELSE IF Contains(t, <<"o","n","l","y"," ","w","a","t","c","h">>) THEN "Only Watch"
        ELSE ""

-----------------------------------------------------------------------------
(* split_segments, attach_following, extract_message_entries *)

\* str.splitlines(): a final line break opens no further line
RECURSIVE SplitLines(_)
SplitLines(s) ==
    IF s = <<>> THEN <<>>
    ELSE LET B == {k \in 1..Len(s) : s[k] = "\n"}
         IN  IF B = {} THEN <<s>>
             ELSE <<SubSeq(s, 1, Min(B) - 1)>> \o SplitLines(SubSeq(s, Min(B) + 1, Len(s)))

\* line.split("//")
RECURSIVE SplitSlashes(_)
SplitSlashes(s) ==
    LET B == {k \in 1..Len(s) : OccursAt(s, <<"/", "/">>, k)}
    IN  IF B = {} THEN <<s>>
        ELSE <<SubSeq(s, 1, Min(B) - 1)>> \o SplitSlashes(SubSeq(s, Min(B) + 2, Len(s)))

\* HasPid as the substring test of line 128 instead of the whole-word search
HasPidAsSubstring(s, pid) == Contains(Lower(s), Lower(pid))

\* re.search(rf'\b{re.escape(pid)}\b', s, re.IGNORECASE)
HasPid(s, pid) ==
    \E p \in 1..Len(s) :
        /\ OccursAt(Lower(s), Lower(pid), p)
        /\ WordBoundary(s, p)
        /\ WordBoundary(s, p + Len(pid))

\* the flattening of a sequence of sequences
RECURSIVE Flatten(_)
Flatten(ss) == IF ss = <<>> THEN <<>> ELSE Head(ss) \o Flatten(Tail(ss))

split_segments(body, pid) ==
    LET ls == SplitLines(body)
        Parts(line) == LET ps == SplitSlashes(line) IN [k \in 1..Len(ps) |-> Strip(ps[k])]
        Kept(line) == SelectSeq(Parts(line), LAMBDA q : HasPid(q, pid))
    IN  Flatten([k \in 1..Len(ls) |-> Kept(ls[k])])

\* lines = [l.strip() for l in body.splitlines() if l.strip()]
StrippedLines(body) ==
    LET ls == SplitLines(body)
    IN  SelectSeq([k \in 1..Len(ls) |-> Strip(ls[k])], LAMBDA l : l # <<>>)

\* [A-Z0-9\-]
IsRefTail(c) == IsAlnum(c) \/ c = "-"

\* re.search(r'\b[A-Z0-9]{4,}/[A-Z0-9\-]+\b', s, re.IGNORECASE), q the place of "/"
HasRefCode(s) ==
    \E q \in 5..Len(s) :
        /\ s[q] = "/"
        /\ \E p \in 1..(q - 4) :
              WordBoundary(s, p) /\ \A k \in p..(q - 1) : IsAlnum(s[k])
        /\ \E e \in (q + 1)..Len(s) :
              (\A k \in (q + 1)..e : IsRefTail(s[k])) /\ WordBoundary(s, e + 1)

\* line 92: the follow line that ends the scan
IsStopLine(s, pid) == HasRefCode(s) /\ ~HasPid(s, pid)

\* line 88 with the year test left out
SelfSufficientByPrice(s) == parse_price(s) > 0

\* line 88: the identifier line that is skipped
SelfSufficient(s) == parse_price(s) > 0 \/ parse_year(s) # <<>>

\* line 93: the follow line that is attached
Attachable(s) == parse_year(s) # <<>> \/ parse_price(s) > 0

\* f"{line} // {follow_line}"
Combined(line, follow_line) == line \o <<" ", "/", "/", " ">> \o follow_line

\* the bound of range(i+1, min(i+6, len(lines)))
FollowLimit == 6

\* LastFollow with the range taken one further, range(i+1, min(i+7, len(lines)))
LastFollowOneMore(ls, i) == IF i + FollowLimit < Len(ls) THEN i + FollowLimit ELSE Len(ls)

\* the last j (1-based) of range(i+1, min(i+6, len(lines))) for the 1-based i
LastFollow(ls, i) == IF i + FollowLimit - 1 < Len(ls) THEN i + FollowLimit - 1 ELSE Len(ls)

\* the inner loop of attach_following from j on
RECURSIVE FollowFrom(_, _, _, _)
FollowFrom(ls, pid, i, j) ==
    IF j > LastFollow(ls, i) THEN <<>>
    ELSE IF IsStopLine(ls[j], pid) THEN <<>>
    ELSE (IF Attachable(ls[j]) THEN <<Combined(ls[i], ls[j])>> ELSE <<>>)
         \o FollowFrom(ls, pid, i, j + 1)

\* the outer loop of attach_following from i on
RECURSIVE AttachFrom(_, _, _)
AttachFrom(ls, pid, i) ==
    IF i > Len(ls) THEN <<>>
    ELSE (IF HasPid(ls[i], pid) /\ ~SelfSufficient(ls[i]) THEN FollowFrom(ls, pid, i, i + 1)
          ELSE <<>>)
         \o AttachFrom(ls, pid, i + 1)

attach_following(body, pid) == AttachFrom(StrippedLines(body), pid, 1)

\* Dedup that keeps the last occurrence of every entry instead of the first
RECURSIVE DedupKeepsLast(_, _)
DedupKeepsLast(entries, seen) ==
    IF entries = <<>> THEN <<>>
    ELSE IF \E k \in 2..Len(entries) : entries[k] = Head(entries)
         THEN DedupKeepsLast(Tail(entries), seen)
    ELSE <<Head(entries)>> \o DedupKeepsLast(Tail(entries), seen)

\* lines 101-106: the first occurrence of every entry, in order
RECURSIVE Dedup(_, _)
Dedup(entries, seen) ==
    IF entries = <<>> THEN <<>>
    ELSE IF Head(entries) \in seen THEN Dedup(Tail(entries), seen)
    ELSE <<Head(entries)>> \o Dedup(Tail(entries), seen \cup {Head(entries)})

extract_message_entries(body, pid) ==
    Dedup(split_segments(body, pid) \o attach_following(body, pid), {})

-----------------------------------------------------------------------------
(* HEADER_RE *)

RECURSIVE DateRunEnd(_, _)
DateRunEnd(s, p) == IF IsDigit(At(s, p)) \/ At(s, p) = "/" THEN DateRunEnd(s, p + 1) ELSE p - 1

IsAmPm(c) == c \in {"A", "P", "M", "a", "p", "m"}          \* [APMapm]

\* HEADER_RE.match(line): <<>> when the line is no header, else the one
\* message <<[date, time, sender, body]>> of groups 1-4
HeaderMatch(line) ==
    LET dEnd   == DateRunEnd(line, 2)                       \* ([\d/]+)
        t0     == SpaceRunEnd(line, dEnd + 2) + 1           \* ,\s*
        hEnd   == DigitRunEnd(line, t0)                     \* \d{1,2}
        mEnd   == hEnd + 3                                  \* :\d{2}
        secs   == /\ At(line, mEnd + 1) = ":"               \* (?::\d{2})?
                  /\ IsDigit(At(line, mEnd + 2))
                  /\ IsDigit(At(line, mEnd + 3))
        sEnd   == IF secs THEN mEnd + 3 ELSE mEnd
        a      == SpaceRunEnd(line, sEnd + 1) + 1           \* \s*[APMapm]{2}
        b      == a + 2                                     \* \]
        Colons == {c \in (b + 1)..Len(line) : line[c] = ":"}
        c      == Min(Colons)                               \* ([^:]+?):
        s0     == SpaceRunEnd(line, b + 1) + 1              \* \s* gives back one character
        sStart == IF s0 <= c - 1 THEN s0 ELSE c - 1         \* when the sender would be empty
        body0  == SpaceRunEnd(line, c + 1) + 1              \* :\s*(.*)$
    IN  IF /\ At(line, 1) = "["
           /\ dEnd >= 2
           /\ At(line, dEnd + 1) = ","
           /\ hEnd - t0 + 1 \in {1, 2}
           /\ At(line, hEnd + 1) = ":"
           /\ IsDigit(At(line, hEnd + 2))
           /\ IsDigit(At(line, hEnd + 3))
           /\ IsAmPm(At(line, a))
           /\ IsAmPm(At(line, a + 1))
           /\ At(line, b) = "]"
           /\ Colons # {}
           /\ c - 1 >= b + 1
        THEN << [date   |-> SubSeq(line, 2, dEnd),
                 time   |-> SubSeq(line, t0, a + 1),
                 sender |-> SubSeq(line, sStart, c - 1),
                 body   |-> SubSeq(line, body0, Len(line))] >>
        ELSE <<>>

IsHeader(line) == HeaderMatch(line) # <<>>

-----------------------------------------------------------------------------
(* process_chat_file and WatchExtractorApp.extraction_thread *)

\* the product identifier the run searches for (pid_var)
PID == <<"x", "7">>

\* the transcript lines the chat files are made of
LinePool == <<
    \* [1/2, 9:05 AM] al: x7 250k // X7 250k
    <<"[","1","/","2",","," ","9",":","0","5"," ","A","M","]"," ","a","l",":"," ","x","7",
      " ","2","5","0","k"," ","/","/"," ","X","7"," ","2","5","0","k">>,
    \* [1/2, 10:15:30 pm] bo: hi
    <<"[","1","/","2",","," ","1","0",":","1","5",":","3","0"," ","p","m","]"," ","b","o",
      ":"," ","h","i">>,
    \* x7 0k
    <<"x","7"," ","0","k">>,
    \* ax7 2023 49k
    <<"a","x","7"," ","2","0","2","3"," ","4","9","k">>,
    \* x7 photo omitted
    <<"x","7"," ","p","h","o","t","o"," ","o","m","i","t","t","e","d">>
    >>

\* the size of the chats directory: one for every file and one for every line
MaxSize == 5

\* the text of a file whose lines are ls
RECURSIVE JoinLines(_)
JoinLines(ls) ==
    IF ls = <<>> THEN <<>>
    ELSE IF Len(ls) = 1 THEN ls[1]
    ELSE ls[1] \o <<"\n">> \o JoinLines(Tail(ls))

\* the k-th file of the directory, <stem>.txt: its stem, whether open() and
\* read() succeed, and its lines (as places in LinePool)
StemOf(k) == <<"c", DigitSeq[k + 1]>>
FilesWith(k, n) ==
    IF n = 0
    THEN {[stem |-> StemOf(k), readable |-> FALSE, holds |-> <<>>],
          [stem |-> StemOf(k), readable |-> TRUE, holds |-> <<>>]}
    ELSE {[stem |-> StemOf(k), readable |-> TRUE, holds |-> idx] :
              idx \in [1..n -> 1..Len(LinePool)]}

\* f.read(): the text of a file
ContentOf(f) == JoinLines([j \in 1..Len(f.holds) |-> LinePool[f.holds[j]]])

\* the directories of exactly k files of size at most n
RECURSIVE FileLists(_, _)
FileLists(k, n) ==
    IF k = 0 THEN {<<>>}
    ELSE UNION {{Append(fs, f) : fs \in FileLists(k - 1, n - 1 - m), f \in FilesWith(k, m)} :
                    m \in 0..(n - 1)}

Directories == UNION {FileLists(k, MaxSize) : k \in 0..MaxSize}

\* pid.lower() in m['body'].lower()  (line 128 negated)
MentionsPid(body, pid) == Contains(Lower(body), Lower(pid))

\* re.search(r'PHOTO|omitted|attached:', raw, re.IGNORECASE)
IsNoise(raw) ==
    LET t == Lower(raw)
    IN  \/ Contains(t, <<"p","h","o","t","o">>)
        \/ Contains(t, <<"o","m","i","t","t","e","d">>)
        \/ Contains(t, <<"a","t","t","a","c","h","e","d",":">>)

\* lines 134-152: the row of one entry
MakeRow(chat_name, m, pid, raw) ==
    [Chat      |-> chat_name,
     Date      |-> m.date,
     Time      |-> m.time,
     Sender    |-> m.sender,
     PID       |-> Upper(pid),
     Year      |-> parse_year(raw),
     Variant   |-> parse_variant(raw),
     Condition |-> parse_condition(raw),
     Price     |-> parse_price(raw),
     Currency  |-> parse_currency(raw),
     RawLine   |-> raw,
     Remark    |-> ""]

\* RowsOf without lines 132-133: every entry gives a row
RowsOfUnfiltered(chat_name, m, pid, entries) ==
    [k \in 1..Len(entries) |-> MakeRow(chat_name, m, pid, entries[k])]

\* lines 131-153: the rows of one message's entries
RowsOf(chat_name, m, pid, entries) ==
    LET kept == SelectSeq(entries, LAMBDA raw : ~IsNoise(raw))
    IN  [k \in 1..Len(kept) |-> MakeRow(chat_name, m, pid, kept[k])]

\* lines 348-350: astype(str).replace(r'\.0$', '', regex=True), then replace('nan', '')
YearColumn(y) ==
    LET n == Len(y)
        cut == IF n >= 2 /\ SubSeq(y, n - 1, n) = <<".", "0">> THEN SubSeq(y, 1, n - 2) ELSE y
    IN  IF cut = <<"n", "a", "n">> THEN <<>> ELSE cut

\* lines 347-351: the frame row of the k-th aggregated row
FrameRow(row, k) ==
    [Series    |-> k,
     Chat      |-> row.Chat,
     Date      |-> row.Date,
     Time      |-> row.Time,
     Sender    |-> row.Sender,
     PID       |-> row.PID,
     Year      |-> YearColumn(row.Year),
     Variant   |-> row.Variant,
     Condition |-> row.Condition,
     Price     |-> row.Price,
     Currency  |-> row.Currency,
     RawLine   |-> row.RawLine,
     Remark    |-> row.Remark]

\* lines 115-124 as a function: the messages of the lines from place p on,
\* open the messages of the one-or-no-message sequence open
RECURSIVE Tokenize(_, _, _)
Tokenize(ls, p, open) ==
    IF p > Len(ls) THEN open
    ELSE IF IsHeader(ls[p]) THEN open \o Tokenize(ls, p + 1, HeaderMatch(ls[p]))
    ELSE IF open = <<>> THEN Tokenize(ls, p + 1, open)
    ELSE Tokenize(ls, p + 1, << [open[1] EXCEPT !.body = @ \o <<"\n">> \o ls[p]] >>)

\* process_chat_file as a function of the file: the rows it returns
process_chat_file(f, pid) ==
    IF ~f.readable THEN <<>>
    ELSE LET ms == Tokenize(SplitLines(ContentOf(f)), 1, <<>>)
             RowsOfMsg(m) ==
                 IF MentionsPid(m.body, pid)
                 THEN RowsOf(f.stem, m, pid, extract_message_entries(m.body, pid))
                 ELSE <<>>
         IN  Flatten([k \in 1..Len(ms) |-> RowsOfMsg(ms[k])])

\* the file the loop is at
ThisFile == txt_files[fidx + 1]

AttachIdle == abody = <<>> /\ lines = <<>> /\ ai = 0 /\ aj = 0 /\ results = <<>> /\ apc = "off"
ParseIdle  == text = <<>> /\ price = 0 /\ year = <<>> /\ fpc = "off"

Init ==
    /\ txt_files \in Directories
    /\ fidx = 0
    /\ all_entries = <<>>
    /\ df = <<>>
    /\ pc = "start"
    /\ flines = <<>>
    /\ pos = 0
    /\ curr = <<>>
    /\ msgs = <<>>
    /\ midx = 0
    /\ raws = <<>>
    /\ rows = <<>>
    /\ AttachIdle
    /\ ParseIdle

\* lines 331-334: no chat file, the thread returns
NoFiles ==
    /\ pc = "start"
    /\ txt_files = <<>>
    /\ pc' = "done"
    /\ UNCHANGED <<txt_files, fidx, all_entries, df, flines, pos, curr, msgs, midx, raws, rows, attVars, fnVars>>

\* lines 335-336
BeginLoop ==
    /\ pc = "start"
    /\ txt_files # <<>>
    /\ pc' = "loop"
    /\ all_entries' = <<>>
    /\ UNCHANGED <<txt_files, fidx, df, flines, pos, curr, msgs, midx, raws, rows, attVars, fnVars>>

\* lines 341, 110-116: the file is read and split into lines
ReadFile ==
    /\ pc = "loop"
    /\ fidx < Len(txt_files)
    /\ ThisFile.readable
    /\ rows' = <<>>
    /\ flines' = SplitLines(ContentOf(ThisFile))
    /\ msgs' = <<>>
    /\ curr' = <<>>
    /\ pos' = 0
    /\ midx' = 0
    /\ raws' = <<>>
    /\ pc' = "tokenize"
    /\ UNCHANGED <<txt_files, fidx, all_entries, df, attVars, fnVars>>

\* ReadFails without the handler of lines 155-157: the exception reaches the
\* handler of extraction_thread (lines 394-396), which ends the run
ReadFailsEndsRun ==
    /\ pc = "loop"
    /\ fidx < Len(txt_files)
    /\ ~ThisFile.readable
    /\ pc' = "done"
    /\ UNCHANGED <<txt_files, fidx, all_entries, df, flines, pos, curr, msgs, midx, raws, rows, attVars, fnVars>>

\* lines 341, 110-114, 155-158: open() or read() raises; the handler reports
\* it and the function returns its rows
ReadFails ==
    /\ pc = "loop"
    /\ fidx < Len(txt_files)
    /\ ~ThisFile.readable
    /\ rows' = <<>>
    /\ flines' = <<>>
    /\ msgs' = <<>>
    /\ curr' = <<>>
    /\ pos' = 0
    /\ midx' = 0
    /\ raws' = <<>>
    /\ pc' = "return"
    /\ UNCHANGED <<txt_files, fidx, all_entries, df, attVars, fnVars>>

\* lines 117-121: a header line closes the open message and opens the next
TokenizeHeader ==
    /\ pc = "tokenize"
    /\ pos < Len(flines)
    /\ IsHeader(flines[pos + 1])
    /\ msgs' = msgs \o curr
    /\ curr' = HeaderMatch(flines[pos + 1])
    /\ pos' = pos + 1
    /\ UNCHANGED <<txt_files, fidx, all_entries, df, pc, flines, midx, raws, rows, attVars, fnVars>>

\* lines 117-118, 122-123: any other line goes to the open message, if there is one
TokenizeLine ==
    /\ pc = "tokenize"
    /\ pos < Len(flines)
    /\ ~IsHeader(flines[pos + 1])
    /\ curr' = IF curr = <<>> THEN <<>>
               ELSE << [curr[1] EXCEPT !.body = @ \o <<"\n">> \o flines[pos + 1]] >>
    /\ pos' = pos + 1
    /\ UNCHANGED <<txt_files, fidx, all_entries, df, pc, flines, msgs, midx, raws, rows, attVars, fnVars>>

\* FinishTokenize without line 124: the last open message is lost
FinishTokenizeDropsLast ==
    /\ pc = "tokenize"
    /\ pos = Len(flines)
    /\ pc' = "assemble"
    /\ UNCHANGED <<txt_files, fidx, all_entries, df, flines, pos, curr, msgs, midx, raws, rows, attVars, fnVars>>

\* line 124: the end of the input closes the open message
FinishTokenize ==
    /\ pc = "tokenize"
    /\ pos = Len(flines)
    /\ msgs' = msgs \o curr
    /\ pc' = "assemble"
    /\ UNCHANGED <<txt_files, fidx, all_entries, df, flines, pos, curr, midx, raws, rows, attVars, fnVars>>

\* lines 127-129: a message that does not mention the identifier
SkipMessage ==
    /\ pc = "assemble"
    /\ midx < Len(msgs)
    /\ ~MentionsPid(msgs[midx + 1].body, PID)
    /\ midx' = midx + 1
    /\ UNCHANGED <<txt_files, fidx, all_entries, df, pc, flines, pos, curr, msgs, raws, rows, attVars, fnVars>>

\* lines 127-153: the entries of a message and their rows
AssembleMessage ==
    /\ pc = "assemble"
    /\ midx < Len(msgs)
    /\ MentionsPid(msgs[midx + 1].body, PID)
    /\ raws' = extract_message_entries(msgs[midx + 1].body, PID)
    /\ rows' = rows \o RowsOf(ThisFile.stem, msgs[midx + 1], PID, raws')
    /\ midx' = midx + 1
    /\ UNCHANGED <<txt_files, fidx, all_entries, df, pc, flines, pos, curr, msgs, attVars, fnVars>>

\* lines 154, 158: the loop over the messages ends and the rows are returned
ReturnRows ==
    /\ pc = "assemble"
    /\ midx = Len(msgs)
    /\ pc' = "return"
    /\ UNCHANGED <<txt_files, fidx, all_entries, df, flines, pos, curr, msgs, midx, raws, rows, attVars, fnVars>>

\* ExtendEntries that puts the rows of the file before the rows so far
ExtendEntriesInFront ==
    /\ pc = "return"
    /\ all_entries' = rows \o all_entries
    /\ fidx' = fidx + 1
    /\ pc' = "loop"
    /\ UNCHANGED <<txt_files, df, flines, pos, curr, msgs, midx, raws, rows, attVars, fnVars>>

\* lines 341-343: all_entries.extend(entries), and on to the next file
ExtendEntries ==
    /\ pc = "return"
    /\ all_entries' = all_entries \o rows
    /\ fidx' = fidx + 1
    /\ pc' = "loop"
    /\ UNCHANGED <<txt_files, df, flines, pos, curr, msgs, midx, raws, rows, attVars, fnVars>>

\* lines 344-346: nothing found, the thread returns without a frame
NoMatches ==
    /\ pc = "loop"
    /\ fidx = Len(txt_files)
    /\ all_entries = <<>>
    /\ pc' = "done"
    /\ UNCHANGED <<txt_files, fidx, all_entries, df, flines, pos, curr, msgs, midx, raws, rows, attVars, fnVars>>

\* lines 347-351: the frame of all rows, its Year column and its Series column
BuildFrame ==
    /\ pc = "loop"
    /\ fidx = Len(txt_files)
    /\ all_entries # <<>>
    /\ df' = [k \in 1..Len(all_entries) |-> FrameRow(all_entries[k], k)]
    /\ pc' = "done"
    /\ UNCHANGED <<txt_files, fidx, all_entries, flines, pos, curr, msgs, midx, raws, rows, attVars, fnVars>>

Next ==
    \/ NoFiles
    \/ BeginLoop
    \/ ReadFile
    \/ ReadFails
    \/ TokenizeHeader
    \/ TokenizeLine
    \/ FinishTokenize
    \/ SkipMessage
    \/ AssembleMessage
    \/ ReturnRows
    \/ ExtendEntries
    \/ NoMatches
    \/ BuildFrame

Spec == Init /\ [][Next]_vars

-----------------------------------------------------------------------------
(* attach_following, step by step *)

\* the plain follow line: it yields a year and a price
FollowLine == <<"2", "0", "2", "3", " ", "4", "9", "k">>

\* the other lines of a body: an identifier line, a reference-code line
\* without the identifier, an identifier line with a year, a blank line, a
\* reference-code line with the identifier
OddLines ==
    { <<"x", "7">>,                                                \* 'x7'
      <<"A", "B", "1", "2", "/", "X", "Y", " ", "4", "9", "k">>,   \* 'AB12/XY 49k'
      <<"x", "7", " ", "5", "y">>,                                 \* 'x7 5y'
      <<" ">>,                                                     \* ' '
      <<"A", "B", "1", "2", "/", "x", "7">>                        \* 'AB12/x7'
    }

\* number of lines of a body, and of lines among them that are not FollowLine
MaxBody == 7
MaxOdd  == 2

\* the bodies of n lines whose lines at the places S are odd lines
BodiesAt(n, S) ==
    {JoinLines([k \in 1..n |-> IF k \in S THEN f[k] ELSE FollowLine]) : f \in [S -> OddLines]}

BodiesOf(n) ==
    UNION {BodiesAt(n, S) : S \in {X \in SUBSET (1..n) : Cardinality(X) <= MaxOdd}}

Bodies == UNION {BodiesOf(n) : n \in 0..MaxBody}

PipeIdle ==
    /\ txt_files = <<>>
    /\ fidx = 0
    /\ all_entries = <<>>
    /\ df = <<>>
    /\ pc = "off"
    /\ flines = <<>>
    /\ pos = 0
    /\ curr = <<>>
    /\ msgs = <<>>
    /\ midx = 0
    /\ raws = <<>>
    /\ rows = <<>>

InitAttach ==
    /\ abody \in Bodies
    /\ lines = <<>>
    /\ ai = 0
    /\ aj = 0
    /\ results = <<>>
    /\ apc = "start"
    /\ PipeIdle
    /\ ParseIdle

\* lines 84-85
AttachStart ==
    /\ apc = "start"
    /\ lines' = StrippedLines(abody)
    /\ results' = <<>>
    /\ ai' = 1
    /\ apc' = "outer"
    /\ UNCHANGED <<abody, aj, pipeVars, fnVars>>

\* lines 86-87: a line without the identifier
AttachOther ==
    /\ apc = "outer"
    /\ ai <= Len(lines)
    /\ ~HasPid(lines[ai], PID)
    /\ ai' = ai + 1
    /\ UNCHANGED <<abody, lines, aj, results, apc, pipeVars, fnVars>>

\* line 88: an identifier line that yields a price or a year by itself
AttachSkip ==
    /\ apc = "outer"
    /\ ai <= Len(lines)
    /\ HasPid(lines[ai], PID)
    /\ SelfSufficient(lines[ai])
    /\ ai' = ai + 1
    /\ UNCHANGED <<abody, lines, aj, results, apc, pipeVars, fnVars>>

\* line 89: the scan of the lines that follow an identifier line begins
AttachScan ==
    /\ apc = "outer"
    /\ ai <= Len(lines)
    /\ HasPid(lines[ai], PID)
    /\ ~SelfSufficient(lines[ai])
    /\ aj' = ai + 1
    /\ apc' = "inner"
    /\ UNCHANGED <<abody, lines, ai, results, pipeVars, fnVars>>

\* FollowStop with `continue` for `break`: the scan goes on after the line
FollowStopContinues ==
    /\ apc = "inner"
    /\ aj <= LastFollow(lines, ai)
    /\ IsStopLine(lines[aj], PID)
    /\ aj' = aj + 1
    /\ UNCHANGED <<abody, lines, ai, results, apc, pipeVars, fnVars>>

\* line 92: a reference-code line without the identifier ends the scan
FollowStop ==
    /\ apc = "inner"
    /\ aj <= LastFollow(lines, ai)
    /\ IsStopLine(lines[aj], PID)
    /\ ai' = ai + 1
    /\ aj' = 0
    /\ apc' = "outer"
    /\ UNCHANGED <<abody, lines, results, pipeVars, fnVars>>

\* lines 93-94: a follow line with a year or a price is attached
FollowEmit ==
    /\ apc = "inner"
    /\ aj <= LastFollow(lines, ai)
    /\ ~IsStopLine(lines[aj], PID)
    /\ Attachable(lines[aj])
    /\ results' = Append(results, Combined(lines[ai], lines[aj]))
    /\ aj' = aj + 1
    /\ UNCHANGED <<abody, lines, ai, apc, pipeVars, fnVars>>

\* line 93: any other follow line is passed over
FollowPass ==
    /\ apc = "inner"
    /\ aj <= LastFollow(lines, ai)
    /\ ~IsStopLine(lines[aj], PID)
    /\ ~Attachable(lines[aj])
    /\ aj' = aj + 1
    /\ UNCHANGED <<abody, lines, ai, results, apc, pipeVars, fnVars>>

\* line 89: the range of j is used up
FollowEnd ==
    /\ apc = "inner"
    /\ aj > LastFollow(lines, ai)
    /\ ai' = ai + 1
    /\ aj' = 0
    /\ apc' = "outer"
    /\ UNCHANGED <<abody, lines, results, pipeVars, fnVars>>

\* line 95
AttachReturn ==
    /\ apc = "outer"
    /\ ai > Len(lines)
    /\ apc' = "done"
    /\ UNCHANGED <<abody, lines, ai, aj, results, pipeVars, fnVars>>

NextAttach ==
    \/ AttachStart
    \/ AttachOther
    \/ AttachSkip
    \/ AttachScan
    \/ FollowStop
    \/ FollowEmit
    \/ FollowPass
    \/ FollowEnd
    \/ AttachReturn

SpecAttach == InitAttach /\ [][NextAttach]_vars

-----------------------------------------------------------------------------
(* parse_year and parse_price, run on their own (lines 134 and 137) *)

\* the numbers 0..99 written with one or two digits
Numerals == {<<d>> : d \in Digits} \cup {<<d, e>> : d, e \in Digits}

\* what stands before the number
YearPre ==
    { <<>>,                                                  \* ''
      <<"x", "7", " ">>,                                     \* 'x7 '
      <<"2", "0", "1", "9", " ">>,                           \* '2019 '
      <<"a">>,                                               \* 'a'
      <<"1">>,                                               \* '1'
      <<"2", "0">>                                           \* '20'
    }

\* what stands after the y
YearPost ==
    { <<>>,                                                  \* ''
      <<" ", "5", "k">>,                                     \* ' 5k'
      <<"r">>,                                               \* 'r'
      <<"/", "2", "1">>                                      \* '/21'
    }

YearTexts ==
    {a \o n \o <<y>> \o z : a \in YearPre, n \in Numerals, y \in {"y", "Y"}, z \in YearPost}

\* what stands before the amount
PricePre ==
    { <<>>,                                                  \* ''
      <<"u", "s", "d">>,                                     \* 'usd'
      <<"h", "k", "d", ":", " ">>,                           \* 'hkd: '
      <<"u", "s", "d", "t", " ">>,                           \* 'usdt '
      <<"x">>                                                \* 'x'
    }

\* the amounts
Amounts ==
    { <<"0">>,                                               \* '0'
      <<"0", "0">>,                                          \* '00'
      <<"5">>,                                               \* '5'
      <<"1", "2">>,                                          \* '12'
      <<"0", ".", "0">>,                                     \* '0.0'
      <<"1", ".", "5">>,                                     \* '1.5'
      <<"0", ".", "0", "5">>,                                \* '0.05'
      <<"0", "0", "0", "0", "0">>,                           \* '00000'
      <<"0", "0", "0", "1", "2">>,                           \* '00012'
      <<"0", "0", "0", "0", "0", "0">>,                      \* '000000'
      <<"0", "0", "0", "1", "2", "0">>,                      \* '000120'
      <<"1", ",", "5">>                                      \* '1,5'
    }

\* between the amount and its unit
Gaps ==
    { <<>>,                                                  \* ''
      <<" ">>                                                \* ' '
    }

\* the units
Units ==
    { <<>>,                                                  \* ''
      <<"k">>,                                               \* 'k'
      <<"m">>,                                               \* 'm'
      <<"K">>,                                               \* 'K'
      <<"m", "i", "l", "l">>,                                \* 'mill'
      <<"k", "m">>                                           \* 'km'
    }

\* what stands after the unit
PricePost ==
    { <<>>,                                                  \* ''
      <<" ", "x", "7">>,                                     \* ' x7'
      <<"b">>                                                \* 'b'
    }

PriceTexts ==
    {a \o n \o g \o u \o z :
        a \in PricePre, n \in Amounts, g \in Gaps, u \in Units, z \in PricePost}

InitParse ==
    /\ text \in YearTexts \cup PriceTexts
    /\ price = 0
    /\ year = <<>>
    /\ fpc = "start"
    /\ PipeIdle
    /\ AttachIdle

\* line 134
ParseYear ==
    /\ fpc = "start"
    /\ year' = parse_year(text)
    /\ fpc' = "year"
    /\ UNCHANGED <<text, price, pipeVars, attVars>>

\* line 137
ParsePrice ==
    /\ fpc = "year"
    /\ price' = parse_price(text)
    /\ fpc' = "done"
    /\ UNCHANGED <<text, year, pipeVars, attVars>>

NextParse == ParseYear \/ ParsePrice

SpecParse == InitParse /\ [][NextParse]_vars

-----------------------------------------------------------------------------
(* The tokenizer *)

\* the places of the header lines among the first n lines
HeaderPlaces(n) == {k \in 1..n : IsHeader(flines[k])}

\* the place of the k-th header line among the first n lines
NthHeader(n, k) ==
    CHOOSE h \in HeaderPlaces(n) : Cardinality({g \in HeaderPlaces(n) : g < h}) = k - 1

\* the messages opened so far, the open one last
Opened == IF pc = "tokenize" THEN msgs \o curr ELSE msgs

\* C1: while and after the lines of a file are tokenized, there is exactly
\* one message per header line consumed, in transcript order; the body of
\* each is the header's trailing text followed by the non-header lines up to
\* the next header (or the end of what was consumed), joined with newlines.
\* So a non-header line before the first header is in no message and every
\* other one is in exactly the most recently opened message.
C1_Tokenizer ==
    pc \in {"tokenize", "assemble"} =>
        LET n == IF pc = "tokenize" THEN pos ELSE Len(flines)
            H == HeaderPlaces(n)
        IN  /\ Len(Opened) = Cardinality(H)
            /\ \A k \in 1..Len(Opened) :
                  LET h    == NthHeader(n, k)
                      next == IF k < Len(Opened) THEN NthHeader(n, k + 1) ELSE n + 1
                      hd   == HeaderMatch(flines[h])[1]
                  IN  /\ Opened[k].date = hd.date
                      /\ Opened[k].time = hd.time
                      /\ Opened[k].sender = hd.sender
                      /\ Opened[k].body = JoinLines(<<hd.body>> \o SubSeq(flines, h + 1, next - 1))

\* a file that starts with a non-header line and has two headers, the first
\* with a continuation line, has been tokenized
C1_Witness ==
    /\ pc = "assemble"
    /\ Len(flines) = 4
    /\ ~IsHeader(flines[1])
    /\ IsHeader(flines[2])
    /\ ~IsHeader(flines[3])
    /\ IsHeader(flines[4])
    /\ Len(msgs) = 2

-----------------------------------------------------------------------------
(* Forward attachment *)

\* some line after i, up to j, is a reference-code line without the identifier
StopWithin(i, j) == \E k \in (i + 1)..j : IsStopLine(lines[k], PID)

\* C2: attach_following combines an identifier line only with follow lines
\* that come before the first reference-code line without the identifier
\* among the lines that follow it: whenever an entry is emitted for the lines
\* i and j, no line of i+1..j is such a line.  For a body of an identifier
\* line, a reference-code line without the identifier and a line with a year
\* and a price, nothing is emitted for lines 1 and 3.
C2_NoAttachPastStop ==
    /\ [][results' # results => (apc = "inner" /\ ~StopWithin(ai, aj))]_vars
    /\ [](( /\ apc = "done"
            /\ Len(lines) = 3
            /\ HasPid(lines[1], PID)
            /\ IsStopLine(lines[2], PID)
            /\ Attachable(lines[3]) )
          => \A k \in 1..Len(results) : results[k] # Combined(lines[1], lines[3]))

\* an identifier line, a reference-code line without the identifier and a
\* line with a year and a price have been scanned
C2_Witness ==
    /\ apc = "done"
    /\ Len(lines) = 3
    /\ HasPid(lines[1], PID)
    /\ ~SelfSufficient(lines[1])
    /\ IsStopLine(lines[2], PID)
    /\ Attachable(lines[3])
    /\ ~HasPid(lines[3], PID)

WindowPairs ==
    {ij \in (1..Len(lines)) \X (1..Len(lines)) :
        /\ HasPid(lines[ij[1]], PID)
        /\ ~(parse_price(lines[ij[1]]) > 0 \/ parse_year(lines[ij[1]]) # <<>>)
        /\ ij[2] > ij[1]
        /\ ij[2] <= ij[1] + 5
        /\ ~StopWithin(ij[1], ij[2])
        /\ (parse_year(lines[ij[2]]) # <<>> \/ parse_price(lines[ij[2]]) > 0)}

PairBefore(a, b) == a[1] < b[1] \/ (a[1] = b[1] /\ a[2] < b[2])

\* the lines of the body that are not blank, stripped
NonBlankLines ==
    LET ls == SplitLines(abody)
        keep == {k \in 1..Len(ls) : \E c \in 1..Len(ls[k]) : ~IsSpace(ls[k][c])}
    IN  [n \in 1..Cardinality(keep) |->
            Strip(ls[CHOOSE k \in keep : Cardinality({g \in keep : g < k}) = n - 1])]

\* C10: the positions are those of the non-blank stripped lines of the body;
\* when attach_following returns, its result is "line i // line j" for
\* exactly the pairs of WindowPairs, ordered by i and then by j.
C10_Window ==
    apc = "done" =>
        LET wp == WindowPairs
        IN  /\ lines = NonBlankLines
            /\ Len(results) = Cardinality(wp)
            /\ \A ij \in wp :
                  results[Cardinality({o \in wp : PairBefore(o, ij)}) + 1]
                      = lines[ij[1]] \o <<" ", "/", "/", " ">> \o lines[ij[2]]

\* an identifier line had six lines to attach after it, and no stop line
C10_Witness ==
    /\ apc = "done"
    /\ \E i \in 1..Len(lines) :
          /\ i + 6 <= Len(lines)
          /\ HasPid(lines[i], PID)
          /\ ~SelfSufficient(lines[i])
          /\ ~StopWithin(i, i + 6)
          /\ \A j \in (i + 1)..(i + 6) : Attachable(lines[j])
          /\ Len(results) = 5

-----------------------------------------------------------------------------
(* The attribute extractors *)

\* C3: parse_price returns 0 only when none of its rules matches the text,
\* and a price greater than 0 whenever one does: the Price of a row is 0
\* exactly when no price rule matches its Raw Line.
C3_ZeroOnlyWhenNoRule ==
    \A k \in 1..Len(rows) :
        /\ rows[k].Price = parse_price(rows[k].RawLine)
        /\ rows[k].Price = 0 <=> PriceRule(rows[k].RawLine) = 0

\* the places where a number of one or two digits followed by y or Y stands
\* as a whole word, with the number of its digits
YearTokens ==
    {pn \in (1..Len(text)) \X {1, 2} :
        /\ ~IsWord(At(text, pn[1] - 1))
        /\ \A k \in 0..(pn[2] - 1) : IsDigit(At(text, pn[1] + k))
        /\ At(text, pn[1] + pn[2]) \in {"y", "Y"}
        /\ ~IsWord(At(text, pn[1] + pn[2] + 1))}

\* an earlier year rule matches: a 20xx word, or 20xx/dd
EarlierYearRule ==
    \E p \in 1..Len(text) : YearRule1At(text, p) \/ YearRule2At(text, p)

\* C8: the year parse_year returns is empty or four digits; for a text that
\* no earlier year rule matches and in which a number n of one or two digits
\* followed by y or Y stands as a whole word, it is 20nn for n < 50 and 19nn
\* for n >= 50, n being the first such number of the text.
C8_TwoDigitYear ==
    fpc \in {"year", "done"} =>
        /\ year = <<>> \/ (Len(year) = 4 /\ \A k \in 1..4 : IsDigit(year[k]))
        /\ (YearTokens # {} /\ ~EarlierYearRule) =>
              LET first == CHOOSE pn \in YearTokens : \A o \in YearTokens : pn[1] <= o[1]
                  n == ToInt(SubSeq(text, first[1], first[1] + first[2] - 1))
              IN  /\ Len(year) = 4
                  /\ ToInt(year) = IF n < 50 THEN 2000 + n ELSE 1900 + n

\* "x7 7y" has been parsed: a one-digit number below 50, after the identifier
C8_Witness ==
    /\ fpc = "done"
    /\ text = <<"x", "7", " ", "7", "y">>
    /\ year = <<"2", "0", "0", "7">>

-----------------------------------------------------------------------------
(* Assembly and aggregation *)

NoiseWords ==
    { <<"p","h","o","t","o">>, <<"o","m","i","t","t","e","d">>,
      <<"a","t","t","a","c","h","e","d",":">> }

\* the text contains PHOTO, omitted or attached: in any case of letters
HasNoiseWord(t) ==
    \E w \in NoiseWords : \E p \in 1..Len(t) :
        p + Len(w) - 1 <= Len(t) /\ Lower(SubSeq(t, p, p + Len(w) - 1)) = w

\* C4: no row, of the file at hand, of the aggregate or of the frame, has a
\* Raw Line that contains PHOTO, omitted or attached: (case-insensitive);
\* the rows a message adds are those of its entries without such a word.
C4_NoNoiseRows ==
    /\ \A k \in 1..Len(rows) : ~HasNoiseWord(rows[k].RawLine)
    /\ \A k \in 1..Len(all_entries) : ~HasNoiseWord(all_entries[k].RawLine)
    /\ \A k \in 1..Len(df) : ~HasNoiseWord(df[k].RawLine)
    /\ (pc = "assemble" /\ midx > 0 /\ MentionsPid(msgs[midx].body, PID)) =>
          \A e \in 1..Len(raws) :
              HasNoiseWord(raws[e]) =>
                  \A k \in 1..Len(rows) : rows[k].RawLine # raws[e]

\* a message had an entry with such a word and an entry without
C4_Witness ==
    /\ pc = "assemble"
    /\ midx > 0
    /\ MentionsPid(msgs[midx].body, PID)
    /\ \E e \in 1..Len(raws) : HasNoiseWord(raws[e])
    /\ \E e \in 1..Len(raws) : ~HasNoiseWord(raws[e])
    /\ rows # <<>>

\* the files that can be read
ReadableFiles == SelectSeq(txt_files, LAMBDA f : f.readable)

\* C5: a file whose reading fails gives no rows and does not end the run:
\* the loop goes through every file, and the aggregate is that of the
\* readable files alone, in their order.
C5_ReadFailure ==
    /\ (pc = "return" /\ ~ThisFile.readable) => rows = <<>>
    /\ pc = "done" =>
          /\ fidx = Len(txt_files)
          /\ all_entries =
                Flatten([k \in 1..Len(ReadableFiles) |-> process_chat_file(ReadableFiles[k], PID)])

\* the run ended, a file could not be read and a later file gave rows
C5_Witness ==
    /\ pc = "done"
    /\ \E k \in 1..Len(txt_files) : \E j \in (k + 1)..Len(txt_files) :
          /\ ~txt_files[k].readable
          /\ \E r \in 1..Len(all_entries) : all_entries[r].Chat = txt_files[j].stem

\* the number of rows of the files before the k-th
RECURSIVE RowsBefore(_)
RowsBefore(k) ==
    IF k = 1 THEN 0 ELSE RowsBefore(k - 1) + Len(process_chat_file(txt_files[k - 1], PID))

\* C6: the frame exists only once every file is processed; its rows are the
\* rows of the files, file after file in the order of txt_files and in the
\* order of each file's list, and the r-th row of the k-th file has the
\* sequence number r + (number of rows of the files before it).
C6_Aggregation ==
    /\ df # <<>> => (pc = "done" /\ fidx = Len(txt_files))
    /\ pc = "done" =>
          /\ Len(all_entries) = RowsBefore(Len(txt_files) + 1)
          /\ df # <<>> <=> all_entries # <<>>
          /\ \A k \in 1..Len(txt_files) :
                LET own == process_chat_file(txt_files[k], PID)
                IN  \A r \in 1..Len(own) :
                        /\ all_entries[RowsBefore(k) + r] = own[r]
                        /\ df[RowsBefore(k) + r].Series = RowsBefore(k) + r
                        /\ df[RowsBefore(k) + r].Chat = own[r].Chat
                        /\ df[RowsBefore(k) + r].RawLine = own[r].RawLine
                        /\ df[RowsBefore(k) + r].Year = own[r].Year
                        /\ df[RowsBefore(k) + r].Price = own[r].Price

\* the run ended with rows of two files in the frame
C6_Witness ==
    /\ pc = "done"
    /\ \E a \in 1..Len(df) : \E b \in (a + 1)..Len(df) : df[a].Chat # df[b].Chat

\* the entries of a body before deduplication
RawEntries(b) == split_segments(b, PID) \o attach_following(b, PID)

\* the place of the first occurrence of e in es
FirstPlace(es, e) == CHOOSE k \in 1..Len(es) : es[k] = e /\ \A g \in 1..(k - 1) : es[g] # e

\* the rows of the same attributes
SameAttributes(a, b) ==
    /\ a.Year = b.Year
    /\ a.Variant = b.Variant
    /\ a.Condition = b.Condition
    /\ a.Price = b.Price
    /\ a.Currency = b.Currency

\* C7: the entries of a message are the texts of the segmentation results
\* followed by the forward-attachment results, each once, at the place of
\* its first occurrence; the message adds one row for each of them that is
\* not noise, in that order, whatever attributes they have in common.
C7_EntryDedup ==
    [][(pc = "assemble" /\ midx' = midx + 1 /\ MentionsPid(msgs[midx + 1].body, PID)) =>
          LET es == RawEntries(msgs[midx + 1].body)
              kept == SelectSeq(raws', LAMBDA e : ~HasNoiseWord(e))
          IN  /\ \A i, j \in 1..Len(raws') : i # j => raws'[i] # raws'[j]
              /\ {raws'[i] : i \in 1..Len(raws')} = {es[i] : i \in 1..Len(es)}
              /\ \A i, j \in 1..Len(raws') :
                    i < j => FirstPlace(es, raws'[i]) < FirstPlace(es, raws'[j])
              /\ Len(rows') = Len(rows) + Len(kept)
              /\ \A k \in 1..Len(kept) : rows'[Len(rows) + k].RawLine = kept[k]
      ]_vars

\* a message had the same entry twice and two entries of different text and
\* the same attributes, which both gave a row
C7_Witness ==
    /\ pc = "assemble"
    /\ midx > 0
    /\ MentionsPid(msgs[midx].body, PID)
    /\ Len(raws) < Len(RawEntries(msgs[midx].body))
    /\ \E a, b \in 1..Len(rows) :
          /\ a # b
          /\ rows[a].RawLine # rows[b].RawLine
          /\ rows[a].RawLine \in {raws[i] : i \in 1..Len(raws)}
          /\ rows[b].RawLine \in {raws[i] : i \in 1..Len(raws)}
          /\ SameAttributes(rows[a], rows[b])

-----------------------------------------------------------------------------
(* The identifier in the rows *)

\* the text t holds the word w at place p, in any case of letters, with no
\* letter, digit or underscore right before it or right after it
WholeWordAt(t, w, p) ==
    /\ p + Len(w) - 1 <= Len(t)
    /\ Lower(SubSeq(t, p, p + Len(w) - 1)) = Lower(w)
    /\ (p = 1 \/ ~IsWord(t[p - 1]))
    /\ (p + Len(w) > Len(t) \/ ~IsWord(t[p + Len(w)]))

HoldsWholeWord(t, w) == \E p \in 1..Len(t) : WholeWordAt(t, w, p)

\* the text holds w, in any case of letters, only inside longer words
HoldsOnlyInside(t, w) ==
    /\ \E p \in 1..Len(t) :
          p + Len(w) - 1 <= Len(t) /\ Lower(SubSeq(t, p, p + Len(w) - 1)) = Lower(w)
    /\ ~HoldsWholeWord(t, w)

\* C11: every row has a Raw Line that holds the identifier as a whole word,
\* in any case of letters, whether the entry is a segment of a line or a
\* line with a follow line attached; a message whose body holds the
\* identifier only inside longer words passes the filter of line 128 and
\* gives no entry and no row.
C11_WholeWordRows ==
    /\ [](\A k \in 1..Len(rows) : HoldsWholeWord(rows[k].RawLine, PID))
    /\ [](\A k \in 1..Len(all_entries) : HoldsWholeWord(all_entries[k].RawLine, PID))
    /\ [](\A k \in 1..Len(df) : HoldsWholeWord(df[k].RawLine, PID))
    /\ [][(pc = "assemble" /\ midx < Len(msgs) /\ HoldsOnlyInside(msgs[midx + 1].body, PID)) =>
             /\ MentionsPid(msgs[midx + 1].body, PID)
             /\ midx' = midx + 1
             /\ raws' = <<>>
             /\ rows' = rows
         ]_vars

\* a message with the identifier only inside a longer word was assembled
\* and gave nothing, after a message that gave rows
C11_Witness ==
    /\ pc = "assemble"
    /\ midx > 1
    /\ HoldsOnlyInside(msgs[midx].body, PID)
    /\ MentionsPid(msgs[midx].body, PID)
    /\ raws = <<>>
    /\ rows # <<>>
    /\ \A k \in 1..Len(rows) : HoldsWholeWord(rows[k].RawLine, PID)

=============================================================================
